---- MODULE Spec2Model ----
(***************************************************************************)
(* A model of tools/build.py, the packaging script of aseprite-dmi.        *)
(*                                                                         *)
(* The script is one sequential process.  Its state is the argument list,  *)
(* the globals TARGET and SKIP, the current working directory, the         *)
(* filesystem below the repository root, what it printed and how it        *)
(* exited.  One action models one statement (or one try block) of the      *)
(* script; pc is the position in the script.  The script is run again and  *)
(* again on the same filesystem (NewRun), so the dist/ a run finds is what *)
(* earlier runs, successful or not, have left.                             *)
(*                                                                         *)
(* Path strings are sequences of tokens: a token is a separator character  *)
(* ("/" or "\") or a piece of text without separators.  The operating      *)
(* system splits a path string into components (Split): on Windows at both *)
(* separators, elsewhere at "/" only, so that a backslash is then part of  *)
(* a file name.  The filesystem maps component sequences, relative to the  *)
(* repository root, to file contents.                                      *)
(***************************************************************************)
EXTENDS Integers, Sequences, FiniteSets, TLC

VARIABLES
    win,        \* sys.platform.startswith('win')
    args,       \* sys.argv[1:]
    pc,         \* the statement the script is at
    TARGET,     \* the global TARGET, a path string
    SKIP,       \* the global SKIP
    cwd,        \* the process's working directory, relative to the root
    fs,         \* the filesystem: [files: path -> bytes, dirs: set of paths]
    out,        \* the messages printed, in order
    exitCode,   \* the process's exit status, -1 while it runs
    exc,        \* the exception that ended the run uncaught, or "none"
    endedAt,    \* the statement the process ended at, "none" while it runs
    cmds,       \* the child processes started, in order
    fault,      \* history: what the environment refused in this run
    written,    \* history: the paths this run has created or written
    fs0,        \* history: the filesystem as this run found it
    repeat      \* history: same arguments as the run before, which succeeded

vars == <<win, args, pc, TARGET, SKIP, cwd, fs, out, exitCode, exc, endedAt, cmds,
          fault, written, fs0, repeat>>

---------------------------------------------------------------------------
(* Bounds and inputs *)

MaxArgs == 2

ArgTokens == {"--release", "--ci", "nightly"}

\* The argument lists: every flag and name given at most once.
ArgLists ==
    {a \in UNION {[1..n -> ArgTokens] : n \in 0..MaxArgs} :
        \A i, j \in DOMAIN a : a[i] = a[j] => i = j}

\* The directories the script is started from.
InvokeDirs == {<<>>, <<"tools">>}

---------------------------------------------------------------------------
(* Constants of the script *)

EXTENSION_NAME == "aseprite-dmi"

LIBRARY_NAME == "dmi"

MsgUsage == "Error: Please provide a target name after --ci flag."

MsgNoRust == "Error: Rust is not installed."

MsgBuildFailed == "Error: lib build failed. Please check for errors."

MsgNotBuilt == "Error: lib was not built. Please check for errors."

MsgDone == "Build completed successfully."

---------------------------------------------------------------------------
(* Paths *)

Range(s) == {s[i] : i \in DOMAIN s}

Last(s) == s[Len(s)]

\* os.sep
Sep(w) == IF w THEN "\\" ELSE "/"

IsSep(t, w) == t = "/" \/ (w /\ t = "\\")

\* os.path.join of two path strings.
join(a, b, w) == IF a = <<>> THEN b ELSE a \o <<Sep(w)>> \o b

RECURSIVE SplitAcc(_, _, _, _)
SplitAcc(p, w, cur, acc) ==
    IF p = <<>>
    THEN (IF cur = "" THEN acc ELSE Append(acc, cur))
    ELSE IF IsSep(Head(p), w)
         THEN SplitAcc(Tail(p), w, "", IF cur = "" THEN acc ELSE Append(acc, cur))
         ELSE SplitAcc(Tail(p), w, cur \o Head(p), acc)

\* The components the operating system sees in a path string.
Split(p, w) == SplitAcc(p, w, "", <<>>)

\* working_dir: the repository root, an absolute path.
working_dir == <<"$ROOT">>

\* The file a path string names, as components below the repository root.
Resolve(p, dir, w) ==
    LET c == Split(p, w)
    IN  IF c # <<>> /\ Head(c) = "$ROOT" THEN Tail(c) ELSE dir \o c

IsPrefix(d, p) == Len(d) <= Len(p) /\ SubSeq(p, 1, Len(d)) = d

Under(p, d) == Len(d) < Len(p) /\ IsPrefix(d, p)

Parents(p) == {SubSeq(p, 1, k) : k \in 0..(Len(p) - 1)}

\* os.path.relpath(p, start) for p below start, on components.
relpath(p, start) == SubSeq(p, Len(start) + 1, Len(p))

---------------------------------------------------------------------------
(* The paths the script computes *)

library_extension == IF win THEN ".dll" ELSE ".so"

library_prefix == IF win THEN "" ELSE "lib"

library_source ==
    join(join(join(<<"lib">>, <<"target">>, win), TARGET, win),
         <<LIBRARY_NAME \o library_extension>>, win)

dist_dir == join(working_dir, <<"dist">>, win)

unzipped_dir == join(dist_dir, <<"unzipped">>, win)

zip_path == join(dist_dir, <<EXTENSION_NAME \o ".zip">>, win)

\* extension_path with its file name misspelt.
extension_path_misspelt ==
    join(dist_dir, <<EXTENSION_NAME \o ".aseprite-extention">>, win)

extension_path == join(dist_dir, <<EXTENSION_NAME \o ".aseprite-extension">>, win)

\* f"{library_prefix}lua54{library_extension}"
lua_source == <<library_prefix \o "lua54" \o library_extension>>

\* The file a path string of the script names now.
At(p) == Resolve(p, cwd, win)

---------------------------------------------------------------------------
(* The filesystem and the library calls on it *)

\* File contents: a plain file has a text, a zip archive has entries (entry
\* name -> contents), a file cut short by a failed write has neither.
File(text) == [text |-> text, entries |-> <<>>]

Archive(e) == [text |-> <<"zip">>, entries |-> e]

Truncated == [text |-> <<>>, entries |-> <<>>]

exists(f, p) == p \in DOMAIN f.files \/ p \in f.dirs

Keep(f, P) == [q \in P |-> f.files[q]]

\* rmtree that removes nothing.
rmtreeNothing(f, p) == f

\* rmtree that drops the directories and leaves their files behind.
rmtreeShallow(f, p) == [f EXCEPT !.dirs = {d \in f.dirs : ~IsPrefix(p, d)}]

\* shutil.rmtree(p)
rmtree(f, p) ==
    [files |-> Keep(f, {q \in DOMAIN f.files : ~IsPrefix(p, q)}),
     dirs  |-> {d \in f.dirs : ~IsPrefix(p, d)}]

\* os.makedirs(p), p not existing
makedirs(f, p) == [f EXCEPT !.dirs = @ \cup {p} \cup Parents(p)]

WriteFile(f, p, data) == [f EXCEPT !.files = (p :> data) @@ @]

\* Where shutil.copy(src, dst) writes: into dst when dst is a directory.
CopyTarget(f, src, dst) == IF dst \in f.dirs THEN Append(dst, Last(src)) ELSE dst

\* shutil.copy(src, dst)
copy(f, src, dst) == WriteFile(f, CopyTarget(f, src, dst), f.files[src])

FilesUnder(f, d) == {q \in DOMAIN f.files : Under(q, d)}

\* shutil.copytree(src, dst) having copied the files K of the tree src.
copytreeOf(f, src, dst, K) ==
    LET new == {dst \o relpath(q, src) : q \in K}
    IN  [files |-> [n \in DOMAIN f.files \cup new |->
                       IF n \in new THEN f.files[src \o relpath(n, dst)]
                                    ELSE f.files[n]],
         dirs  |-> f.dirs \cup {dst \o relpath(d, src) :
                                   d \in {e \in f.dirs : IsPrefix(src, e)}}]

copytree(f, src, dst) == copytreeOf(f, src, dst, FilesUnder(f, src))

\* Entry names relative to dist/ instead of the staging root.
arcnameFromDist(q) == relpath(q, At(dist_dir))

\* The entry name zipf.write gives the staged file q.
arcname(q) == relpath(q, At(unzipped_dir))

\* The archive written by walking the staging tree.
ZipData(f) ==
    LET staged == FilesUnder(f, At(unzipped_dir))
    IN  Archive([n \in {arcname(q) : q \in staged} |->
                    f.files[CHOOSE q \in staged : arcname(q) = n]])

\* The order in which a directory listing yields the files of dist/.
ListingOrder ==
    <<"package.json", "LICENSE", "dmi.so", "dmi.dll", "lua54.dll", "main.lua",
      "util.lua", "aseprite-dmi.zip", "aseprite-dmi.aseprite-extension">>

Rank(q) ==
    IF Last(q) \in Range(ListingOrder)
    THEN CHOOSE i \in DOMAIN ListingOrder : ListingOrder[i] = Last(q)
    ELSE 0

\* shutil.rmtree(p) stopped by an error after removing the files up to
\* position k of the listing; the directories are still there.
rmtreeUpTo(f, p, k) ==
    [f EXCEPT !.files = Keep(f, {q \in DOMAIN f.files :
                                    ~(IsPrefix(p, q) /\ Rank(q) <= k)})]

\* What cargo build leaves under the directory it runs in.
ArtifactData(q) == File(<<"bin">> \o q)

---------------------------------------------------------------------------
(* The repository before the first run *)

SourceFiles ==
    {<<"package.json">>, <<"LICENSE">>, <<"lua54.dll">>,
     <<"scripts", "main.lua">>, <<"scripts", "sub", "util.lua">>}

SourceDirs == {<<>>, <<"scripts">>, <<"scripts", "sub">>, <<"lib">>, <<"tools">>}

\* Where a CI step run before the script may have left a built library.
CiArtifacts(w) ==
    IF w THEN {<<"lib", "target", "nightly", "release", "dmi.dll">>}
         ELSE {<<"lib", "target", "nightly", "release", "dmi.so">>,
               <<"lib", "target", "nightly\\release", "dmi.so">>}

Checkout(pre) ==
    [files |-> [q \in SourceFiles \cup pre |->
                   IF q \in pre THEN ArtifactData(q) ELSE File(<<Last(q)>>)],
     dirs  |-> SourceDirs \cup UNION {Parents(q) : q \in pre}]

---------------------------------------------------------------------------
(* Mode Resolver: lines 6-23 *)

FirstIndex(a, t) ==
    CHOOSE i \in DOMAIN a : a[i] = t /\ \A j \in 1..(i - 1) : a[j] # t

\* ResolveMode without the IndexError: a missing name reads as an empty one.
ResolveModeNoUsage(a) ==
    IF "--release" \in Range(a)
    THEN [target |-> <<"release">>, skip |-> FALSE, usage |-> FALSE]
    ELSE IF "--ci" \in Range(a)
    THEN LET index == FirstIndex(a, "--ci")
         IN  [target |-> (IF index + 1 \in DOMAIN a THEN <<a[index + 1]>> ELSE <<>>)
                            \o <<"\\", "release">>,
              skip |-> TRUE, usage |-> FALSE]
    ELSE [target |-> <<"debug">>, skip |-> FALSE, usage |-> FALSE]

ResolveMode(a) ==
    IF "--release" \in Range(a)
    THEN [target |-> <<"release">>, skip |-> FALSE, usage |-> FALSE]
    ELSE IF "--ci" \in Range(a)
    THEN LET index == FirstIndex(a, "--ci")
         IN  IF index + 1 \in DOMAIN a
             THEN [target |-> <<a[index + 1], "\\", "release">>,
                   skip |-> TRUE, usage |-> FALSE]
             ELSE [target |-> <<"debug">>, skip |-> FALSE, usage |-> TRUE]
    ELSE [target |-> <<"debug">>, skip |-> FALSE, usage |-> FALSE]

\* The build command without the release branch of lines 39-40.
BuildCommandPlain == <<"cargo", "build">>

\* The build command of lines 37-40.
BuildCommand ==
    IF TARGET = <<"debug">> THEN <<"cargo", "build">>
                            ELSE <<"cargo", "build", "--release">>

\* The filesystem after cargo, run in directory dir, has built the library
\* under the name the script looks for.  (Under any other name the script
\* never reads it, and the filesystem is as before.)
CargoBuilt(f, dir, cmd) ==
    LET profile == IF "--release" \in Range(cmd) THEN "release" ELSE "debug"
        q == dir \o <<"target", profile, LIBRARY_NAME \o library_extension>>
    IN  makedirs(WriteFile(f, q, ArtifactData(q)), SubSeq(q, 1, Len(q) - 1))

\* Line 58 without its check.
ArtifactBuiltUnchecked == TRUE

\* The check of line 58.
ArtifactBuilt == exists(fs, At(library_source))

\* Line 90 copying the library instead of the archive.
ExtensionSourceLibrary == library_source

\* What line 90 copies to extension_path.
ExtensionSource == zip_path

---------------------------------------------------------------------------
(* The state machine *)

Init ==
    /\ win \in BOOLEAN
    /\ args \in ArgLists
    /\ cwd \in InvokeDirs
    /\ \E pre \in SUBSET CiArtifacts(win) :
          Cardinality(pre) <= 1 /\ fs = Checkout(pre)
    /\ fs0 = fs
    /\ pc = "parse"
    /\ TARGET = <<"debug">>
    /\ SKIP = FALSE
    /\ out = <<>>
    /\ exitCode = -1
    /\ exc = "none"
    /\ endedAt = "none"
    /\ cmds = <<>>
    /\ fault = "none"
    /\ written = {}
    /\ repeat = FALSE

inputs == <<win, args, fs0, repeat>>

\* sys.exit(1) after print(msg)
Fail(msg) ==
    /\ out' = Append(out, msg)
    /\ exitCode' = 1
    /\ endedAt' = pc
    /\ pc' = "exited"
    /\ UNCHANGED exc

\* An exception nothing catches: a traceback and exit status 1.
Raise(e) ==
    /\ exc' = e
    /\ exitCode' = 1
    /\ endedAt' = pc
    /\ pc' = "exited"
    /\ UNCHANGED out

Goto(l) ==
    /\ pc' = l
    /\ UNCHANGED <<out, exitCode, exc, endedAt>>

\* lines 12-23
ParseArgs ==
    /\ pc = "parse"
    /\ LET m == ResolveMode(args)
       IN  IF m.usage
           THEN Fail(MsgUsage) /\ UNCHANGED <<TARGET, SKIP>>
           ELSE TARGET' = m.target /\ SKIP' = m.skip /\ Goto("chdir")
    /\ UNCHANGED <<inputs, cwd, fs, cmds, fault, written>>

\* lines 25-26
Chdir ==
    /\ pc = "chdir"
    /\ cwd' = At(working_dir)
    /\ Goto("checkskip")
    /\ UNCHANGED <<inputs, TARGET, SKIP, fs, cmds, fault, written>>

\* line 28
CheckSkip ==
    /\ pc = "checkskip"
    /\ Goto(IF ~SKIP THEN "rustc" ELSE "chdir_root")
    /\ UNCHANGED <<inputs, TARGET, SKIP, cwd, fs, cmds, fault, written>>

\* lines 29-33
Rustc ==
    /\ pc = "rustc"
    /\ \/ /\ cmds' = Append(cmds, <<"rustc", "--version">>)
          /\ Goto("chdir_lib")
          /\ UNCHANGED fault
       \/ /\ fault' = "rustc_missing"
          /\ Fail(MsgNoRust)
          /\ UNCHANGED cmds
    /\ UNCHANGED <<inputs, TARGET, SKIP, cwd, fs, written>>

\* line 35
ChdirLib ==
    /\ pc = "chdir_lib"
    /\ cwd' = At(join(working_dir, <<"lib">>, win))
    /\ Goto("cargo")
    /\ UNCHANGED <<inputs, TARGET, SKIP, fs, cmds, fault, written>>

\* lines 36-43
Cargo ==
    /\ pc = "cargo"
    /\ \/ /\ fault' = "cargo_missing"
          /\ Raise("FileNotFoundError")
          /\ UNCHANGED <<cmds, fs, written>>
       \/ /\ fault' = "build_failed"
          /\ cmds' = Append(cmds, BuildCommand)
          /\ Fail(MsgBuildFailed)
          /\ UNCHANGED <<fs, written>>
       \/ /\ cmds' = Append(cmds, BuildCommand)
          /\ \/ fs' = CargoBuilt(fs, cwd, BuildCommand)
             \/ UNCHANGED fs
          /\ Goto("chdir_root")
          /\ UNCHANGED <<fault, written>>
    /\ UNCHANGED <<inputs, TARGET, SKIP, cwd>>

\* line 46
ChdirRoot ==
    /\ pc = "chdir_root"
    /\ cwd' = At(working_dir)
    /\ Goto("locate")
    /\ UNCHANGED <<inputs, TARGET, SKIP, fs, cmds, fault, written>>

\* lines 48-60
Locate ==
    /\ pc = "locate"
    /\ IF ~ArtifactBuilt THEN Fail(MsgNotBuilt) ELSE Goto("clean")
    /\ UNCHANGED <<inputs, TARGET, SKIP, cwd, fs, cmds, fault, written>>

\* A filesystem call refused by the environment (permissions, a full disk,
\* a locked file): an OSError nothing catches.
Refused ==
    /\ fault' = "fs"
    /\ Raise("OSError")

StillThere(W, f) == {q \in W : q \in DOMAIN f.files}

\* lines 62-66
Clean ==
    /\ pc = "clean"
    /\ LET d == At(dist_dir)
       IN  \/ /\ fs' = IF exists(fs, d) THEN rmtree(fs, d) ELSE fs
              /\ written' = StillThere(written, fs')
              /\ Goto("mkdist")
              /\ UNCHANGED fault
           \/ /\ exists(fs, d)
              /\ \E k \in 0..Len(ListingOrder) : fs' = rmtreeUpTo(fs, d, k)
              /\ written' = StillThere(written, fs')
              /\ Refused
    /\ UNCHANGED <<inputs, TARGET, SKIP, cwd, cmds>>

\* os.makedirs(p) at position here
MakeDirs(here, p, next) ==
    /\ pc = here
    /\ \/ /\ IF exists(fs, At(p))
             THEN Raise("FileExistsError") /\ UNCHANGED fs
             ELSE fs' = makedirs(fs, At(p)) /\ Goto(next)
          /\ UNCHANGED fault
       \/ /\ Refused
          /\ UNCHANGED fs
    /\ UNCHANGED <<inputs, TARGET, SKIP, cwd, cmds, written>>

\* line 68
MkDist == MakeDirs("mkdist", dist_dir, "mkunzipped")

\* line 69
MkUnzipped == MakeDirs("mkunzipped", unzipped_dir, "cp_manifest")

\* shutil.copy(src, dst) at position here
CopyStep(here, src, dst, next) ==
    /\ pc = here
    /\ LET from == At(src)
           to   == CopyTarget(fs, from, At(dst))
       IN  \/ /\ IF from \notin DOMAIN fs.files
                    \/ SubSeq(to, 1, Len(to) - 1) \notin fs.dirs
                 THEN Raise("FileNotFoundError") /\ UNCHANGED <<fs, written>>
                 ELSE /\ fs' = copy(fs, from, At(dst))
                      /\ written' = written \cup {to}
                      /\ Goto(next)
              /\ UNCHANGED fault
           \/ /\ Refused
              /\ \/ UNCHANGED <<fs, written>>
                 \/ /\ SubSeq(to, 1, Len(to) - 1) \in fs.dirs
                    /\ fs' = WriteFile(fs, to, Truncated)
                    /\ written' = written \cup {to}
    /\ UNCHANGED <<inputs, TARGET, SKIP, cwd, cmds>>

\* line 71
CopyManifest == CopyStep("cp_manifest", <<"package.json">>, unzipped_dir, "cp_license")

\* line 72
CopyLicense == CopyStep("cp_license", <<"LICENSE">>, unzipped_dir, "cp_lib")

\* line 73
CopyLibrary == CopyStep("cp_lib", library_source, unzipped_dir, "cp_lua")

\* lines 75-76
CopyLua ==
    \/ /\ win
       /\ CopyStep("cp_lua", lua_source, unzipped_dir, "copytree")
    \/ /\ ~win
       /\ pc = "cp_lua"
       /\ Goto("copytree")
       /\ UNCHANGED <<inputs, TARGET, SKIP, cwd, cmds, fs, fault, written>>

\* line 78
CopyScripts ==
    /\ pc = "copytree"
    /\ LET src == At(<<"scripts">>)
           dst == At(join(unzipped_dir, <<"scripts">>, win))
       IN  \/ /\ IF exists(fs, dst)
                 THEN Raise("FileExistsError") /\ UNCHANGED <<fs, written>>
                 ELSE IF src \notin fs.dirs
                 THEN Raise("FileNotFoundError") /\ UNCHANGED <<fs, written>>
                 ELSE /\ fs' = copytree(fs, src, dst)
                      /\ written' = written \cup
                            {dst \o relpath(q, src) : q \in FilesUnder(fs, src)}
                      /\ Goto("zip")
              /\ UNCHANGED fault
           \/ /\ Refused
              /\ \E K \in SUBSET FilesUnder(fs, src) :
                    /\ K # FilesUnder(fs, src)
                    /\ fs' = copytreeOf(fs, src, dst, K)
                    /\ written' = written \cup {dst \o relpath(q, src) : q \in K}
    /\ UNCHANGED <<inputs, TARGET, SKIP, cwd, cmds>>

\* lines 80-84
Zip ==
    /\ pc = "zip"
    /\ LET zp == At(zip_path)
       IN  \/ /\ fs' = WriteFile(fs, zp, ZipData(fs))
              /\ written' = written \cup {zp}
              /\ Goto("rm_ext")
              /\ UNCHANGED fault
           \/ /\ Refused
              /\ \/ UNCHANGED <<fs, written>>
                 \/ /\ fs' = WriteFile(fs, zp, Truncated)
                    /\ written' = written \cup {zp}
    /\ UNCHANGED <<inputs, TARGET, SKIP, cwd, cmds>>

\* lines 86-88
RemoveOldExtension ==
    /\ pc = "rm_ext"
    /\ LET ep == At(extension_path)
       IN  /\ fs' = IF exists(fs, ep)
                    THEN [fs EXCEPT !.files = Keep(fs, DOMAIN fs.files \ {ep})]
                    ELSE fs
           /\ written' = written \ {ep}
    /\ Goto("cp_ext")
    /\ UNCHANGED <<inputs, TARGET, SKIP, cwd, cmds, fault>>

\* line 90
CopyExtension == CopyStep("cp_ext", ExtensionSource, extension_path, "print_done")

\* line 92
Done ==
    /\ pc = "print_done"
    /\ out' = Append(out, MsgDone)
    /\ exitCode' = 0
    /\ endedAt' = pc
    /\ pc' = "exited"
    /\ UNCHANGED <<inputs, TARGET, SKIP, cwd, cmds, fs, fault, written, exc>>

\* What a new process starts with.
Fresh ==
    /\ TARGET' = <<"debug">>
    /\ SKIP' = FALSE
    /\ out' = <<>>
    /\ exitCode' = -1
    /\ exc' = "none"
    /\ endedAt' = "none"
    /\ cmds' = <<>>
    /\ fault' = "none"
    /\ written' = {}
    /\ fs0' = fs
    /\ UNCHANGED <<win, fs>>

\* The script is started again with the arguments of the run that has just
\* succeeded, on the filesystem that run left.
Rerun ==
    /\ pc = "exited"
    /\ exitCode = 0
    /\ pc' = "parse"
    /\ cwd' \in InvokeDirs
    /\ repeat' = TRUE
    /\ UNCHANGED args
    /\ Fresh

\* The process is gone; the filesystem is what is left of the run.
Reap ==
    /\ pc = "exited"
    /\ pc' = "idle"
    /\ args' = <<>>
    /\ cwd' = <<>>
    /\ repeat' = FALSE
    /\ Fresh

\* The script is started with any arguments on the filesystem earlier runs
\* have left.
NewRun ==
    /\ pc = "idle"
    /\ pc' = "parse"
    /\ args' \in ArgLists
    /\ cwd' \in InvokeDirs
    /\ UNCHANGED <<win, fs, fs0, repeat, TARGET, SKIP, out, exitCode, exc,
                   endedAt, cmds, fault, written>>

Next ==
    \/ ParseArgs \/ Chdir \/ CheckSkip \/ Rustc \/ ChdirLib \/ Cargo
    \/ ChdirRoot \/ Locate \/ Clean \/ MkDist \/ MkUnzipped
    \/ CopyManifest \/ CopyLicense \/ CopyLibrary \/ CopyLua \/ CopyScripts
    \/ Zip \/ RemoveOldExtension \/ CopyExtension \/ Done \/ Rerun \/ Reap \/ NewRun

Spec == Init /\ [][Next]_vars

---------------------------------------------------------------------------
(* Vocabulary of the properties *)

DistRoot == <<"dist">>

Staging == <<"dist", "unzipped">>

ZipFile == <<"dist", "aseprite-dmi.zip">>

ExtFile == <<"dist", "aseprite-dmi.aseprite-extension">>

\* What a filesystem holds at and below dist/.
DistPart(f) ==
    [files |-> Keep(f, {q \in DOMAIN f.files : IsPrefix(DistRoot, q)}),
     dirs  |-> {d \in f.dirs : IsPrefix(DistRoot, d)}]

\* The statement the run is at, or ended at.
Pos == IF pc = "exited" THEN endedAt ELSE pc

Succeeded == pc = "exited" /\ exitCode = 0

BeforeClean ==
    {"parse", "chdir", "checkskip", "rustc", "chdir_lib", "cargo",
     "chdir_root", "locate"}

Staged ==
    {"mkdist", "mkunzipped", "cp_manifest", "cp_license", "cp_lib", "cp_lua",
     "copytree"}

Archived == {"zip", "rm_ext", "cp_ext", "print_done"}

AssemblerPcs == {"clean"} \cup Staged \cup Archived

\* The mode an argument list selects (the command-line table of the spec).
Mode(a) ==
    IF \E i \in DOMAIN a : a[i] = "--release" THEN "release"
    ELSE IF \E i \in DOMAIN a : a[i] = "--ci" /\ i < Len(a) THEN "ci"
    ELSE IF \E i \in DOMAIN a : a[i] = "--ci" THEN "usage"
    ELSE "debug"

\* --ci is the final token and appears nowhere else.
CiLast(a) ==
    /\ a # <<>>
    /\ a[Len(a)] = "--ci"
    /\ \A i \in 1..(Len(a) - 1) : a[i] # "--ci"

\* The output artifact a is absent, or is the file the run found there.
AbsentOrStale(a) ==
    \/ a \notin DOMAIN fs.files
    \/ /\ a \in DOMAIN fs0.files
       /\ fs.files[a] = fs0.files[a]
       /\ a \notin written

---------------------------------------------------------------------------
(* C1 *)

\* C1: a run with `--ci nightly` on a platform other than Windows, where
\* lib/target/nightly/release/dmi.so exists and nothing goes wrong in the
\* environment, starts no toolchain command, succeeds, and its archive holds
\* that binary.
C1_CiNightlyPackagesPrebuilt ==
    LET built == <<"lib", "target", "nightly", "release", "dmi.so">>
    IN  (/\ pc = "exited"
         /\ args = <<"--ci", "nightly">>
         /\ ~win
         /\ built \in DOMAIN fs0.files
         /\ fault = "none")
        => /\ cmds = <<>>
           /\ exitCode = 0
           /\ ZipFile \in DOMAIN fs.files
           /\ <<"dmi.so">> \in DOMAIN fs.files[ZipFile].entries
           /\ fs.files[ZipFile].entries[<<"dmi.so">>] = fs0.files[built]

---------------------------------------------------------------------------
(* C2 *)

\* The run ends in the Mode Resolver with the usage error, having started no
\* command and changed nothing on the filesystem.
UsageEnd ==
    /\ pc \in {"parse", "exited"}
    /\ pc = "exited" =>
          /\ endedAt = "parse"
          /\ exitCode = 1
          /\ out = <<MsgUsage>>
          /\ cmds = <<>>
          /\ fs = fs0

\* C2, as claimed: whenever --ci is the final token and nowhere else, whatever
\* precedes it, the run ends with the usage error and no later stage runs.
C2_Original == CiLast(args) => UsageEnd

\* C2, amended: whenever --ci is the final token and nowhere else and
\* --release is not among the tokens, the run ends with the usage error and a
\* non-zero exit, no later stage runs, no command is started and the
\* filesystem is not changed.
C2_Amended == (CiLast(args) /\ "--release" \notin Range(args)) => UsageEnd

C2_Witness ==
    /\ pc = "exited"
    /\ args = <<"nightly", "--ci">>
    /\ out = <<MsgUsage>>
    /\ exists(fs0, DistRoot)

---------------------------------------------------------------------------
(* C3 *)

\* C3: when a toolchain binary the run needs (rustc or cargo) cannot be
\* found, the run ends with the missing-toolchain message and a non-zero exit,
\* no build command has been started, and dist/ is as the run found it.
C3_MissingToolchainReported ==
    (pc = "exited" /\ fault \in {"rustc_missing", "cargo_missing"})
    => /\ exitCode = 1
       /\ out = <<MsgNoRust>>
       /\ \A i \in DOMAIN cmds : cmds[i][1] # "cargo"
       /\ DistPart(fs) = DistPart(fs0)

---------------------------------------------------------------------------
(* C4 *)

AllStagesDone ==
    /\ exitCode = 0
    /\ out = <<MsgDone>>
    /\ ZipFile \in DOMAIN fs.files
    /\ ExtFile \in DOMAIN fs.files

\* C4, as claimed: every run either completes all stages with exit zero and
\* both output artifacts exist, or exits non-zero and each output artifact is
\* absent or the unchanged file of a previous run.
C4_Original ==
    pc = "exited" =>
        \/ AllStagesDone
        \/ /\ exitCode # 0
           /\ AbsentOrStale(ZipFile)
           /\ AbsentOrStale(ExtFile)

\* C4, amended: every run either completes all stages with exit zero and both
\* output artifacts exist, or exits non-zero; a run that exits non-zero before
\* the zip write leaves each output artifact absent or the unchanged file of
\* a previous run, and one that fails in the zip write leaves the
\* .aseprite-extension file absent.
C4_Amended ==
    pc = "exited" =>
        \/ AllStagesDone
        \/ /\ exitCode # 0
           /\ endedAt \notin Archived =>
                 AbsentOrStale(ZipFile) /\ AbsentOrStale(ExtFile)
           /\ endedAt = "zip" => ExtFile \notin DOMAIN fs.files

C4_Witness ==
    /\ pc = "exited"
    /\ exitCode = 1
    /\ endedAt = "copytree"
    /\ fault = "fs"
    /\ ZipFile \in DOMAIN fs0.files
    /\ ExtFile \in DOMAIN fs0.files
    /\ ZipFile \notin DOMAIN fs.files

---------------------------------------------------------------------------
(* C5 *)

RustcQuery == <<"rustc", "--version">>

\* C5: the Toolchain Invoker is skipped if and only if the mode the
\* arguments select is ci: once control is at the Artifact Locator or beyond,
\* no command has been started in ci mode, the version query and the plain
\* build command have run in debug mode, and the version query and the
\* release-flagged build command have run in release mode.  Before the
\* Locator, the commands started are a prefix of these.
C5_InvokerSkippedIffCi ==
    LET mode == Mode(args)
        due  == CASE mode = "debug" -> <<RustcQuery, <<"cargo", "build">>>>
                  [] mode = "release" ->
                        <<RustcQuery, <<"cargo", "build", "--release">>>>
                  [] OTHER -> <<>>
    IN  /\ SKIP <=> (mode = "ci" /\ pc \notin {"parse", "idle"})
        /\ Len(cmds) <= Len(due) /\ cmds = SubSeq(due, 1, Len(cmds))
        /\ Pos \in {"chdir_root", "locate"} \cup AssemblerPcs => cmds = due

C5_Witness ==
    /\ pc = "locate"
    /\ Mode(args) = "release"
    /\ cmds = <<RustcQuery, <<"cargo", "build", "--release">>>>

---------------------------------------------------------------------------
(* C6 *)

\* The path the Artifact Locator checks, below the repository root.
LocatedArtifact == Resolve(library_source, <<>>, win)

\* C6: in every mode, a run whose artifact path does not exist when the
\* Locator checks it ends there with the 'lib was not built' message and a
\* non-zero exit, and dist/ is exactly as the run found it; the Archive
\* Assembler runs only when the artifact exists.
C6_MissingArtifactStopsBeforeAssembler ==
    /\ (pc = "exited" /\ endedAt = "locate") =>
          /\ ~exists(fs, LocatedArtifact)
          /\ exitCode = 1
          /\ out = <<MsgNotBuilt>>
          /\ DistPart(fs) = DistPart(fs0)
    /\ Pos \in AssemblerPcs => exists(fs, LocatedArtifact)

C6_Witness ==
    /\ pc = "exited"
    /\ endedAt = "locate"
    /\ out = <<MsgNotBuilt>>
    /\ Mode(args) = "debug"
    /\ ZipFile \in DOMAIN fs.files

---------------------------------------------------------------------------
(* C7 *)

\* The archive entries a successful run yields, from the inputs of the run
\* alone: the source tree and the located library.
ExpectedEntries ==
    LET scripts == FilesUnder(fs, <<"scripts">>)
        top == {<<"package.json">>, <<"LICENSE">>}
                 \cup (IF win THEN {<<"lua54.dll">>} ELSE {})
        lib == <<Last(LocatedArtifact)>>
    IN  [n \in top \cup {lib} \cup scripts |->
            IF n = lib THEN fs.files[LocatedArtifact] ELSE fs.files[n]]

ExpectedDist ==
    LET e == ExpectedEntries
        staged == {Staging \o n : n \in DOMAIN e}
    IN  [files |-> [q \in staged \cup {ZipFile, ExtFile} |->
                       IF q \in staged THEN e[relpath(q, Staging)]
                                       ELSE Archive(e)],
         dirs  |-> {DistRoot} \cup
                   {Staging} \cup
                   {Staging \o d : d \in {x \in fs.dirs : IsPrefix(<<"scripts">>, x)}}]

\* C7: a run fails with an uncaught exception only when the environment
\* refuses something, never because of what earlier runs left in dist/; a
\* run that repeats the successful run before it, in an environment that
\* refuses nothing, succeeds and leaves the same archive; and after every
\* successful run dist/ is a function of the inputs of that run.
C7_RerunSameResult ==
    /\ (pc = "exited" /\ fault = "none") => exc = "none"
    /\ (pc = "exited" /\ repeat /\ fault = "none") =>
          /\ exitCode = 0
          /\ fs.files[ZipFile] = fs0.files[ZipFile]
    /\ Succeeded => DistPart(fs) = ExpectedDist

C7_Witness ==
    /\ Succeeded
    /\ repeat
    /\ fault = "none"
    /\ fs.files[ZipFile] = fs0.files[ZipFile]
    /\ ZipFile \in written

---------------------------------------------------------------------------
(* C8 *)

\* C8: after a successful run every file of the scripts tree is an archive
\* entry named scripts/<its path below scripts>, every entry name is the path
\* of a staged file relative to dist/unzipped with that file's contents, and
\* the manifest, the license and the library are entries at the archive root.
C8_ArchiveEntries ==
    Succeeded =>
        LET z == fs.files[ZipFile].entries
        IN  /\ \A q \in FilesUnder(fs, <<"scripts">>) :
                  /\ (<<"scripts">> \o relpath(q, <<"scripts">>)) \in DOMAIN z
                  /\ z[<<"scripts">> \o relpath(q, <<"scripts">>)] = fs.files[q]
            /\ \A n \in DOMAIN z :
                  /\ (Staging \o n) \in DOMAIN fs.files
                  /\ z[n] = fs.files[Staging \o n]
            /\ {<<"package.json">>, <<"LICENSE">>,
                <<"dmi" \o (IF win THEN ".dll" ELSE ".so")>>} \subseteq DOMAIN z

C8_Witness ==
    /\ Succeeded
    /\ <<"scripts", "sub", "util.lua">> \in DOMAIN fs.files[ZipFile].entries
    /\ <<"scripts", "main.lua">> \in DOMAIN fs.files[ZipFile].entries

---------------------------------------------------------------------------
(* C9 *)

\* C9: after every successful run dist/aseprite-dmi.zip and
\* dist/aseprite-dmi.aseprite-extension both exist and have the same bytes.
C9_ExtensionIsCopyOfZip ==
    Succeeded =>
        /\ ZipFile \in DOMAIN fs.files
        /\ ExtFile \in DOMAIN fs.files
        /\ fs.files[ExtFile] = fs.files[ZipFile]

\* A successful run that found an .aseprite-extension file of another build.
C9_Witness ==
    /\ Succeeded
    /\ ExtFile \in DOMAIN fs0.files
    /\ fs0.files[ExtFile] # fs.files[ExtFile]

---------------------------------------------------------------------------
(* C10 *)

StagedFiles(f) == FilesUnder(f, Staging)

\* No file of the staging tree is of this run, or all are.
NoMix ==
    \/ StagedFiles(fs) \cap written = {}
    \/ StagedFiles(fs) \subseteq written

\* The staging tree is exactly as the run found it.
AsLeft ==
    /\ Keep(fs, StagedFiles(fs)) = Keep(fs0, StagedFiles(fs0))
    /\ StagedFiles(fs) \cap written = {}

\* The staging tree holds only files the run found there, unchanged.
OnlyLeftovers ==
    \A q \in StagedFiles(fs) :
        /\ q \notin written
        /\ q \in DOMAIN fs0.files
        /\ fs.files[q] = fs0.files[q]

OnlyNew == StagedFiles(fs) \subseteq written

NothingSurvives == \A q \in DOMAIN DistPart(fs).files : q \in written

\* C10, as claimed: the staging tree never mixes files of an earlier run with
\* files of this one; when a run ends it is exactly as the run found it or
\* holds only files this run wrote; after a successful run nothing of an
\* earlier dist/ is left.
C10_Original ==
    /\ NoMix
    /\ pc = "exited" => (AsLeft \/ OnlyNew)
    /\ Succeeded => NothingSurvives

\* C10, amended: the staging tree never mixes files of an earlier run with
\* files of this one; when a run ends before the clean step it is exactly as
\* the run found it, when a run ends in the clean step it holds only files
\* the run found there, unchanged (all of them or some), when a run ends
\* after the clean step it holds only files this run wrote; after a
\* successful run nothing of an earlier dist/ is left.
C10_Amended ==
    /\ NoMix
    /\ pc = "exited" =>
          /\ endedAt \in BeforeClean => AsLeft
          /\ endedAt = "clean" => OnlyLeftovers
          /\ endedAt \in Staged \cup Archived => OnlyNew
    /\ Succeeded => NothingSurvives

\* A run that found a staging tree and failed in the middle of its copies.
C10_Witness ==
    /\ pc = "exited"
    /\ endedAt = "cp_license"
    /\ StagedFiles(fs0) # {}
    /\ StagedFiles(fs) # {}

====
